---- MODULE Spec2Model ----
\* The attribute-injection framework of inject_attr.py (class Inject and the
\* inject decorator): host types with their attribute dictionaries, the
\* process-wide Inject.history set, and one action per entry point.
EXTENDS Integers, Sequences, FiniteSets, TLC

\* ---------------------------------------------------------------------------
\* Bounds
\* ---------------------------------------------------------------------------

\* number of framework calls explored in one run
MaxCalls == 2

\* longest list of target classes passed as `to`
MaxTargets == 2

\* number of threads that call the framework concurrently
MaxThreads == 2

\* longest docstring, in characters, and largest pool handed to the scan
MaxDoc == 5

MaxPool == 2

\* largest number of columns of a frame handed to move_col
MaxCols == 4

\* number of DataFrame objects the process creates, and of calls it makes to
\* the functions of workspace.py
MaxObjects == 3

MaxSqlOps == 4

\* ---------------------------------------------------------------------------
\* The host environment: target types
\* ---------------------------------------------------------------------------

\* Frame and FrameRedef are two distinct class objects that carry the same
\* __module__ and the same __name__ (a class statement executed twice);
\* SubFrame is a subclass of Frame; int is a built-in type, whose attributes
\* cannot be set.
Types == {"Frame", "FrameRedef", "SubFrame", "int"}

NoBase == "object"

\* cls.__bases__ (single inheritance is enough for attribute lookup here)
Base(t) == IF t = "SubFrame" THEN "Frame" ELSE NoBase

\* cls.__name__
TypeName(t) == CASE t = "Frame" -> "Frame"
                 [] t = "FrameRedef" -> "Frame"
                 [] t = "SubFrame" -> "SubFrame"
                 [] t = "int" -> "int"

None == "None"

\* inspect.getmodule(cls): the module object, or None
getmodule(t) == IF t = "int" THEN "builtins" ELSE "pkg"

\* whether type.__setattr__ accepts a new attribute on the class
Mutable(t) == t # "int"

\* attribute names
Names == {"shape", "nrows"}

\* ---------------------------------------------------------------------------
\* Attribute definitions and attribute objects
\* ---------------------------------------------------------------------------

\* f1: function of one positional parameter; f2: function of two;
\* p: an object built with @property; v: a class-level constant
Defs == {"f1", "f2", "p", "v"}

\* an attribute object: a definition, possibly wrapped by property(...)
Obj(d) == [def |-> d, wrapped |-> FALSE]

\* the attribute a host type had before the framework touched it
Orig == [def |-> "orig", wrapped |-> FALSE]

\* no attribute under that name in the class dictionary
Absent == [def |-> "absent", wrapped |-> FALSE]

\* isinstance(attr_obj, property)
isproperty(o) == o.wrapped \/ o.def = "p"

\* inspect.isfunction(attr_obj)
isfunction(o) == ~o.wrapped /\ o.def \in {"f1", "f2"}

\* len(inspect.getfullargspec(attr_obj).args)
num_params(o) == IF o.def = "f1" THEN 1 ELSE IF o.def = "f2" THEN 2 ELSE 0

\* property(attr_obj)
property(o) == [def |-> o.def, wrapped |-> TRUE]

\* ---------------------------------------------------------------------------
\* State
\* ---------------------------------------------------------------------------

VARIABLES
    attrs,      \* attrs[t][n]: the entry of name n in the class dict of type t
    history,    \* Inject.history
    source,     \* the class dictionary of the source class of the last bundle
    last,       \* the last framework call: its arguments, attempts and outcome
    pre,        \* attrs and history as they were when the last call started
    ncalls,     \* number of calls made
    scan,       \* the last run of the docstring scan of notebooks/workspace.py
    threads,    \* threads[i]: the call of _inject_attr_and_cache thread i is in
    df,         \* the last call of move_col: the frame, the arguments, the result
    sql,        \* sql[con]: the tables of the database and the cache dictionary
    heap,       \* heap[i]: the contents of DataFrame object i
    out         \* the last call of workspace.py: arguments, outcome, frame returned

\* the state of pandas_plugin.py and workspace.py
pandas_vars == <<df, sql, heap, out>>

vars == <<attrs, history, source, last, pre, ncalls, scan, threads,
          df, sql, heap, out>>

\* hasattr(target_cls, attr_name): the class dictionary, then the bases
RECURSIVE hasattr(_, _, _)
hasattr(at, t, n) ==
    \/ at[t][n] # Absent
    \/ Base(t) # NoBase /\ hasattr(at, Base(t), n)

\* getattr(target_cls, attr_name) on a name the type exposes
RECURSIVE getattr(_, _, _)
getattr(at, t, n) ==
    IF at[t][n] # Absent \/ Base(t) = NoBase THEN at[t][n]
    ELSE getattr(at, Base(t), n)

\* ---------------------------------------------------------------------------
\* Inject
\* ---------------------------------------------------------------------------

\* Inject._make_history_key
_make_history_key(target_cls, attr_name) ==
    << IF getmodule(target_cls) # None THEN getmodule(target_cls) ELSE None,
       TypeName(target_cls),
       attr_name >>

\* _validate_non_existing_attribute with the membership test inverted
\* (`in cls.history` for `not in cls.history`)
_validate_history_inverted(at, hist, target_cls, attr_name) ==
    /\ hasattr(at, target_cls, attr_name)
    /\ _make_history_key(target_cls, attr_name) \in hist

\* _validate_non_existing_attribute as a bare hasattr() test, without the
\* history
_validate_without_history(at, hist, target_cls, attr_name) ==
    hasattr(at, target_cls, attr_name)

\* _validate_non_existing_attribute looking at the class dictionary of the
\* target only, not at what its bases give it
_validate_own_dict(at, hist, target_cls, attr_name) ==
    /\ at[target_cls][attr_name] # Absent
    /\ _make_history_key(target_cls, attr_name) \notin hist

\* Inject._validate_non_existing_attribute: TRUE when it raises
\* ExistingAttributeError
_validate_non_existing_attribute(at, hist, target_cls, attr_name) ==
    /\ hasattr(at, target_cls, attr_name)
    /\ _make_history_key(target_cls, attr_name) \notin hist

\* setattr that keeps the entry a class dictionary already has under the name
setattr_keeping_existing(at, target_cls, attr_name, attr_obj) ==
    IF at[target_cls][attr_name] # Absent THEN at
    ELSE [at EXCEPT ![target_cls][attr_name] = attr_obj]

\* setattr(target_cls, attr_name, attr_obj): the class dictionaries afterwards
setattr(at, target_cls, attr_name, attr_obj) ==
    [at EXCEPT ![target_cls][attr_name] = attr_obj]

\* the as_property block without the test of the number of parameters
as_property_check_no_arity(attr_obj, as_property) ==
    IF as_property /\ ~isproperty(attr_obj) /\ ~isfunction(attr_obj)
    THEN "TypeError" ELSE "ok"

\* the as_property block of Inject._inject_attr_and_cache: the exception it
\* raises, or "ok"
as_property_check(attr_obj, as_property) ==
    IF as_property /\ ~isproperty(attr_obj)
    THEN IF ~isfunction(attr_obj) THEN "TypeError"
         ELSE IF 1 # num_params(attr_obj) THEN "ValueError"
         ELSE "ok"
    ELSE "ok"

\* the as_property block wrapping whatever it is given, properties included
as_property_convert_always(attr_obj, as_property) ==
    IF as_property THEN property(attr_obj) ELSE attr_obj

\* the as_property block of Inject._inject_attr_and_cache: the object to attach
as_property_convert(attr_obj, as_property) ==
    IF as_property /\ ~isproperty(attr_obj) THEN property(attr_obj) ELSE attr_obj

\* _inject_attr_and_cache validating whatever overwrite says
_inject_always_validating(at, hist, target_cls, attr_name, attr_obj, overwrite, as_property) ==
    LET pc == as_property_check(attr_obj, as_property)
        obj == as_property_convert(attr_obj, as_property)
        key == _make_history_key(target_cls, attr_name)
    IN  IF pc # "ok"
        THEN [attrs |-> at, history |-> hist, outcome |-> pc]
        ELSE IF _validate_non_existing_attribute(at, hist, target_cls, attr_name)
        THEN [attrs |-> at, history |-> hist, outcome |-> "ExistingAttributeError"]
        ELSE IF ~Mutable(target_cls)
        THEN [attrs |-> at, history |-> hist \cup {key}, outcome |-> "TypeError(setattr)"]
        ELSE [attrs |-> setattr(at, target_cls, attr_name, obj),
              history |-> hist \cup {key}, outcome |-> "ok"]

\* _inject_attr_and_cache assigning the history instead of adding to it
_inject_resetting_history(at, hist, target_cls, attr_name, attr_obj, overwrite, as_property) ==
    LET pc == as_property_check(attr_obj, as_property)
        obj == as_property_convert(attr_obj, as_property)
        key == _make_history_key(target_cls, attr_name)
    IN  IF pc # "ok"
        THEN [attrs |-> at, history |-> hist, outcome |-> pc]
        ELSE IF ~overwrite /\ _validate_non_existing_attribute(at, hist, target_cls, attr_name)
        THEN [attrs |-> at, history |-> hist, outcome |-> "ExistingAttributeError"]
        ELSE IF ~Mutable(target_cls)
        THEN [attrs |-> at, history |-> {key}, outcome |-> "TypeError(setattr)"]
        ELSE [attrs |-> setattr(at, target_cls, attr_name, obj),
              history |-> {key}, outcome |-> "ok"]

\* _inject_attr_and_cache adding the key to the history only when it validated
_inject_not_recording_overwrite(at, hist, target_cls, attr_name, attr_obj, overwrite, as_property) ==
    LET pc == as_property_check(attr_obj, as_property)
        obj == as_property_convert(attr_obj, as_property)
        key == _make_history_key(target_cls, attr_name)
        rec == IF overwrite THEN hist ELSE hist \cup {key}
    IN  IF pc # "ok"
        THEN [attrs |-> at, history |-> hist, outcome |-> pc]
        ELSE IF ~overwrite /\ _validate_non_existing_attribute(at, hist, target_cls, attr_name)
        THEN [attrs |-> at, history |-> hist, outcome |-> "ExistingAttributeError"]
        ELSE IF ~Mutable(target_cls)
        THEN [attrs |-> at, history |-> rec, outcome |-> "TypeError(setattr)"]
        ELSE [attrs |-> setattr(at, target_cls, attr_name, obj),
              history |-> rec, outcome |-> "ok"]

\* Inject._inject_attr_and_cache: class dictionaries, history and outcome
\* after the call: "ok", or the exception that left it, "TypeError(setattr)"
\* being the TypeError of type.__setattr__ on a type that takes no attribute
_inject_attr_and_cache(at, hist, target_cls, attr_name, attr_obj, overwrite, as_property) ==
    LET pc == as_property_check(attr_obj, as_property)
        obj == as_property_convert(attr_obj, as_property)
        key == _make_history_key(target_cls, attr_name)
    IN  IF pc # "ok"
        THEN [attrs |-> at, history |-> hist, outcome |-> pc]
        ELSE IF ~overwrite /\ _validate_non_existing_attribute(at, hist, target_cls, attr_name)
        THEN [attrs |-> at, history |-> hist, outcome |-> "ExistingAttributeError"]
        ELSE IF ~Mutable(target_cls)
        THEN [attrs |-> at, history |-> hist \cup {key}, outcome |-> "TypeError(setattr)"]
        ELSE [attrs |-> setattr(at, target_cls, attr_name, obj),
              history |-> hist \cup {key}, outcome |-> "ok"]

\* from_cls.__dict__ of a class whose body binds `body`: the entries Python
\* adds around the body ("__module__" first; "__dict__" and "__weakref__" only
\* when no base supplies them, that is for a class that does not inherit from
\* Inject; "__doc__" last)
Dunder == [def |-> "dunder", wrapped |-> FALSE]

class_dict(body, inherits_inject) ==
    << [name |-> "__module__", obj |-> Dunder] >> \o body \o
    (IF inherits_inject THEN <<>>
     ELSE << [name |-> "__dict__", obj |-> Dunder],
             [name |-> "__weakref__", obj |-> Dunder] >>) \o
    << [name |-> "__doc__", obj |-> Dunder] >>

\* the entries of a class dictionary whose name is not in `names`, in order
RECURSIVE without(_, _)
without(dict, names) ==
    IF dict = <<>> THEN <<>>
    ELSE IF Head(dict).name \in names THEN without(Tail(dict), names)
    ELSE <<Head(dict)>> \o without(Tail(dict), names)

\* filtered_cls_dict of Inject.inject_class_contents
filtered_cls_dict(dict) ==
    without(dict, {"__weakref__", "__dict__", "__module__", "__doc__"})

\* delattr(from_cls, attr_name)
delattr(dict, attr_name) == without(dict, {attr_name})

\* the inner loop of Inject.inject_class_contents: one attribute on the
\* targets to[j..], in order, stopping at the first exception
RECURSIVE inject_into_targets(_, _, _, _, _, _)
inject_into_targets(st, entry, to, j, overwrite, as_property) ==
    IF j > Len(to) THEN st
    ELSE LET r == _inject_attr_and_cache(st.attrs, st.history, to[j],
                        entry.name, entry.obj, overwrite, as_property)
             s1 == [st EXCEPT !.attrs = r.attrs, !.history = r.history,
                              !.outcome = r.outcome,
                              !.log = Append(@, <<to[j], entry.name>>)]
         IN  IF r.outcome # "ok" THEN s1
             ELSE inject_into_targets(s1, entry, to, j + 1, overwrite, as_property)

\* the outer loop of Inject.inject_class_contents over filtered_cls_dict[i..]
RECURSIVE inject_entries(_, _, _, _, _, _, _)
inject_entries(st, items, i, to, overwrite, del_old_attrs, as_property) ==
    IF i > Len(items) THEN st
    ELSE LET s1 == inject_into_targets(st, items[i], to, 1, overwrite, as_property)
         IN  IF s1.outcome # "ok" THEN s1
             ELSE inject_entries(
                    IF del_old_attrs
                    THEN [s1 EXCEPT !.source = delattr(@, items[i].name)]
                    ELSE s1,
                    items, i + 1, to, overwrite, del_old_attrs, as_property)

\* a class dictionary in reverse order
RECURSIVE reversed(_)
reversed(dict) ==
    IF dict = <<>> THEN <<>> ELSE Append(reversed(Tail(dict)), Head(dict))

\* inject_class_contents walking the class dictionary from its last entry
inject_class_contents_reversed(at, hist, from_cls, to, overwrite, del_old_attrs, as_property) ==
    inject_entries([attrs |-> at, history |-> hist, source |-> from_cls,
                    log |-> <<>>, outcome |-> "ok"],
                   reversed(filtered_cls_dict(from_cls)), 1, to,
                   overwrite, del_old_attrs, as_property)

\* inject_class_contents undoing its attachments and records when an attempt
\* fails
inject_class_contents_rollback(at, hist, from_cls, to, overwrite, del_old_attrs, as_property) ==
    LET r == inject_entries([attrs |-> at, history |-> hist, source |-> from_cls,
                             log |-> <<>>, outcome |-> "ok"],
                            filtered_cls_dict(from_cls), 1, to,
                            overwrite, del_old_attrs, as_property)
    IN  IF r.outcome # "ok" THEN [r EXCEPT !.attrs = at, !.history = hist] ELSE r

\* inject_class_contents deleting from from_cls, before the loops, every
\* attribute it is going to inject
inject_class_contents_deleting_first(at, hist, from_cls, to, overwrite, del_old_attrs, as_property) ==
    LET r == inject_entries([attrs |-> at, history |-> hist, source |-> from_cls,
                             log |-> <<>>, outcome |-> "ok"],
                            filtered_cls_dict(from_cls), 1, to,
                            overwrite, del_old_attrs, as_property)
    IN  IF del_old_attrs
        THEN [r EXCEPT !.source = without(from_cls,
                {from_cls[i].name : i \in 1..Len(from_cls)}
                    \ {"__weakref__", "__dict__", "__module__", "__doc__"})]
        ELSE r

\* Inject.inject_class_contents: class dictionaries, history, the dictionary
\* of from_cls, the attempts made (target, name) and the outcome
inject_class_contents(at, hist, from_cls, to, overwrite, del_old_attrs, as_property) ==
    inject_entries([attrs |-> at, history |-> hist, source |-> from_cls,
                    log |-> <<>>, outcome |-> "ok"],
                   filtered_cls_dict(from_cls), 1, to,
                   overwrite, del_old_attrs, as_property)

\* ---------------------------------------------------------------------------
\* Inputs
\* ---------------------------------------------------------------------------

\* the name a definition is declared under in a class body or above the
\* decorator: e.__name__, e.fget.__name__, or the name of the class variable
def_name(d) == IF d \in {"f1", "v"} THEN "nrows" ELSE "shape"

\* one binding of a class body, or one decorated element with its name
Entries == {[name |-> def_name(d), obj |-> Obj(d)] : d \in Defs}

\* class bodies: bindings under distinct names, in declaration order
Bodies ==
    {<<>>} \cup {<<e>> : e \in Entries}
    \cup {b \in {<<e1, e2>> : e1 \in Entries, e2 \in Entries} : b[1].name # b[2].name}

\* lists of distinct target classes
RECURSIVE TargetLists(_)
TargetLists(k) ==
    IF k = 0 THEN {<<>>}
    ELSE LET shorter == TargetLists(k - 1)
         IN  shorter \cup
             {Append(s, t) : s \in {x \in shorter : Len(x) = k - 1},
                             t \in Types}

Distinct(s) == \A i, j \in 1..Len(s) : i # j => s[i] # s[j]

Targets == {s \in TargetLists(MaxTargets) : Len(s) >= 1 /\ Distinct(s)}

\* ---------------------------------------------------------------------------
\* Initial state and actions
\* ---------------------------------------------------------------------------

\* the class dictionaries of the host types before any injection
InitAttrs ==
    [t \in Types |-> [n \in Names |->
        IF \/ t = "Frame" /\ n = "shape"
           \/ t = "FrameRedef" /\ n = "nrows"
           \/ t = "int" /\ n = "shape"
        THEN Orig ELSE Absent]]

\* the record of a call: op is the entry point, element the kind of the
\* decorated element ("class", "element" or "none"), log the attempts
\* (target, name) the call made, in order
NoCall == [op |-> "none", element |-> "none", to |-> <<>>, body |-> <<>>,
           overwrite |-> FALSE, as_property |-> FALSE, del_old_attrs |-> FALSE,
           log |-> <<>>, outcome |-> "ok"]

\* no scan has run
NoScan == [op |-> "none", pool |-> <<>>, log |-> <<>>, found |-> <<>>,
           outcome |-> "ok"]

\* the threads of the process, and a thread that is in no call
Threads == 1..MaxThreads

NoThread == [pc |-> "idle", target_cls |-> "Frame", attr_name |-> "shape",
             attr_obj |-> Absent, overwrite |-> FALSE, as_property |-> FALSE,
             outcome |-> "ok"]

\* move_col has not been called
NoFrame == [op |-> "none", columns |-> <<>>, after |-> <<>>, name |-> "a",
            target |-> [kind |-> "str", val |-> "a"], result |-> <<>>,
            outcome |-> "ok"]

\* the two entries of the dictionary sql, the table names, and the query
\* texts handed to read_sql, two of them reading one table
Connections == {"raw", "main"}

Tables == {"t", "u"}

Queries == {"SELECT * FROM t;", "select * from t", "SELECT * FROM u;"}

\* DataFrame objects by identity; 0 stands for None
Objects == 1..MaxObjects

NoObject == 0

\* no such table in a database, no such object on the heap
Missing == [data |-> 0, columns |-> "none"]

\* no function of workspace.py has been called
NoOp == [op |-> "none", con |-> "raw", arg |-> "none", ret |-> NoObject,
         outcome |-> "ok", n |-> 0]

Init ==
    /\ attrs = InitAttrs
    /\ history = {}
    /\ source = <<>>
    /\ last = NoCall
    /\ pre = [attrs |-> InitAttrs, history |-> {}]
    /\ ncalls = 0
    /\ scan = NoScan
    /\ threads = [i \in Threads |-> NoThread]
    /\ df = NoFrame
    /\ sql = [con \in Connections |->
                [tables |-> [t \in Tables |-> Missing],
                 cache |-> [q \in Queries |-> NoObject]]]
    /\ heap = [i \in Objects |-> Missing]
    /\ out = NoOp

\* a call may start: the caller has control and the call budget is not spent
Idle == last.op = "none" /\ ncalls < MaxCalls

\* a direct call of Inject._inject_attr_and_cache (inject_one)
InjectOneWith(OW) ==
    /\ Idle
    /\ \E t \in Types, n \in Names, d \in Defs, ow \in OW, ap \in BOOLEAN :
        \E r \in {_inject_attr_and_cache(attrs, history, t, n, Obj(d), ow, ap)} :
            /\ attrs' = r.attrs
            /\ history' = r.history
            /\ last' = [op |-> "inject_one", element |-> "none", to |-> <<t>>,
                        body |-> << [name |-> n, obj |-> Obj(d)] >>,
                        overwrite |-> ow, as_property |-> ap,
                        del_old_attrs |-> FALSE,
                        log |-> << <<t, n>> >>, outcome |-> r.outcome]
    /\ pre' = [attrs |-> attrs, history |-> history]
    /\ ncalls' = ncalls + 1
    /\ UNCHANGED <<pandas_vars, source, scan, threads>>

\* the state after a call that ran Inject.inject_class_contents with result r
BundleDone(op, element, body, to, ow, del, ap, r) ==
    /\ attrs' = r.attrs
    /\ history' = r.history
    /\ source' = r.source
    /\ last' = [op |-> op, element |-> element, to |-> to, body |-> body,
                overwrite |-> ow, as_property |-> ap, del_old_attrs |-> del,
                log |-> r.log, outcome |-> r.outcome]
    /\ pre' = [attrs |-> attrs, history |-> history]
    /\ ncalls' = ncalls + 1
    /\ UNCHANGED <<pandas_vars, scan, threads>>

\* a direct call of Inject.inject_class_contents (inject_bundle) on a class
\* that does not inherit from Inject
InjectClassContentsWith(OW) ==
    /\ Idle
    /\ \E body \in Bodies, to \in Targets,
          ow \in OW, del \in BOOLEAN, ap \in BOOLEAN :
        \E r \in {inject_class_contents(attrs, history, class_dict(body, FALSE),
                                          to, ow, del, ap)} :
            BundleDone("inject_class_contents", "none", body, to, ow, del, ap, r)

\* Inject.__init_subclass__: the statement `class _(Inject, to=..., ...)`
InitSubclassWith(OW) ==
    /\ Idle
    /\ \E body \in Bodies, to \in Targets,
          ow \in OW, del \in BOOLEAN, ap \in BOOLEAN :
        \E r \in {inject_class_contents(attrs, history, class_dict(body, TRUE),
                                          to, ow, del, ap)} :
            BundleDone("init_subclass", "none", body, to, ow, del, ap, r)

\* updated_cls_dict of Inject.get_subclass: the namespace of the new class
updated_cls_dict(dict) == without(dict, {"__weakref__", "__dict__"})

\* Inject.get_subclass: a new subclass of Inject is built from the dictionary
\* of from_cls and processed by __init_subclass__; from_cls is only read, and
\* source is the dictionary of the new class
GetSubclassWith(OW) ==
    /\ Idle
    /\ \E body \in Bodies, to \in Targets,
          ow \in OW, del \in BOOLEAN, ap \in BOOLEAN :
        \E r \in {inject_class_contents(attrs, history,
                        updated_cls_dict(class_dict(body, FALSE)),
                        to, ow, del, ap)} :
            BundleDone("get_subclass", "none", body, to, ow, del, ap, r)

\* the loop of inject.inner over the targets args[j..] for a decorated
\* function or property, stopping at the first exception
RECURSIVE inject_element(_, _, _, _, _, _)
inject_element(st, entry, args, j, overwrite, as_property) ==
    IF j > Len(args) THEN st
    ELSE LET r == _inject_attr_and_cache(st.attrs, st.history, args[j],
                        entry.name, entry.obj, overwrite, as_property)
             s1 == [st EXCEPT !.attrs = r.attrs, !.history = r.history,
                              !.outcome = r.outcome,
                              !.log = Append(@, <<args[j], entry.name>>)]
         IN  IF r.outcome # "ok" THEN s1
             ELSE inject_element(s1, entry, args, j + 1, overwrite, as_property)

\* inject.inner applied to a class, leaving as_property at its default
inner_class_without_as_property(at, hist, from_cls, args, overwrite, del_old_attrs, as_property) ==
    inject_class_contents(at, hist, from_cls, args, overwrite, TRUE, FALSE)

\* inject.inner applied to a class e with dictionary from_cls
inner_class(at, hist, from_cls, args, overwrite, del_old_attrs, as_property) ==
    inject_class_contents(at, hist, from_cls, args, overwrite, TRUE, as_property)

\* inject.inner without its last branch: whatever is not a class is injected
inner_element_accepting_any(at, hist, entry, args, overwrite, as_property) ==
    inject_element([attrs |-> at, history |-> hist, source |-> <<>>,
                    log |-> <<>>, outcome |-> "ok"],
                   entry, args, 1, overwrite, as_property)

\* inject.inner applied to an element that is not a class, bound under the
\* name entry.name
inner_element(at, hist, entry, args, overwrite, as_property) ==
    LET st == [attrs |-> at, history |-> hist, source |-> <<>>,
               log |-> <<>>, outcome |-> "ok"]
    IN  IF isfunction(entry.obj) \/ isproperty(entry.obj)
        THEN inject_element(st, entry, args, 1, overwrite, as_property)
        ELSE [st EXCEPT !.outcome = "ValueError"]

\* the decorator inject(*args, overwrite, del_old_attrs, as_property) applied
\* to a class
DecorateClassWith(OW) ==
    /\ Idle
    /\ \E body \in Bodies, to \in Targets,
          ow \in OW, del \in BOOLEAN, ap \in BOOLEAN :
        \E r \in {inner_class(attrs, history, class_dict(body, FALSE),
                                to, ow, del, ap)} :
            BundleDone("inject", "class", body, to, ow, del, ap, r)

\* the decorator inject(*args, overwrite, del_old_attrs, as_property) applied
\* to a function, a property or any other object
DecorateElementWith(OW) ==
    /\ Idle
    /\ \E e \in Entries, to \in Targets,
          ow \in OW, del \in BOOLEAN, ap \in BOOLEAN :
        \E r \in {inner_element(attrs, history, e, to, ow, ap)} :
            BundleDone("inject", "element", <<e>>, to, ow, del, ap, r)

\* control is back at the caller, who goes on to another call: the record of
\* the finished call is dropped
Return ==
    /\ last.op # "none"
    /\ ncalls < MaxCalls
    /\ last' = NoCall
    /\ pre' = [attrs |-> attrs, history |-> history]
    /\ source' = <<>>
    /\ UNCHANGED <<pandas_vars, attrs, history, ncalls, scan, threads>>

InjectOne == InjectOneWith(BOOLEAN)

InjectClassContents == InjectClassContentsWith(BOOLEAN)

InitSubclass == InitSubclassWith(BOOLEAN)

GetSubclass == GetSubclassWith(BOOLEAN)

DecorateClass == DecorateClassWith(BOOLEAN)

DecorateElement == DecorateElementWith(BOOLEAN)

Next ==
    \/ InjectOne
    \/ InjectClassContents
    \/ InitSubclass
    \/ GetSubclass
    \/ DecorateClass
    \/ DecorateElement
    \/ Return

Spec == Init /\ [][Next]_vars

\* the runs in which every call passes overwrite=False
InjectOneSafe == InjectOneWith({FALSE})

InjectClassContentsSafe == InjectClassContentsWith({FALSE})

InitSubclassSafe == InitSubclassWith({FALSE})

GetSubclassSafe == GetSubclassWith({FALSE})

DecorateClassSafe == DecorateClassWith({FALSE})

DecorateElementSafe == DecorateElementWith({FALSE})

NextNoOverwrite ==
    \/ InjectOneSafe
    \/ InjectClassContentsSafe
    \/ InitSubclassSafe
    \/ GetSubclassSafe
    \/ DecorateClassSafe
    \/ DecorateElementSafe
    \/ Return

SpecNoOverwrite == Init /\ [][NextNoOverwrite]_vars

\* ---------------------------------------------------------------------------
\* notebooks/workspace.py: the docstring scan (_add_func_to_class and
\* _add_all_funcs_to_classes; df_util.py holds the same two functions as
\* _add_func_to_object and _add_all_funcs_to_objects)
\* ---------------------------------------------------------------------------

\* the characters of a docstring: blank, colon, comma and two letters
Chars == {" ", ":", ",", "F", "S"}

\* func.__doc__ of a function without docstring
NoDoc == <<None>>

\* the docstrings of at most MaxDoc characters
Docs == UNION {[1..n -> Chars] : n \in 0..MaxDoc}

\* what \s matches, and what \S matches
isspace(c) == c = " "

\* the longest run of blanks that \s* takes at the start of doc
leading_space(doc) ==
    CHOOSE k \in 0..Len(doc) :
        /\ \A i \in 1..k : isspace(doc[i])
        /\ k < Len(doc) => ~isspace(doc[k + 1])

\* the end of the longest run that \S+ takes from position p on
nonspace_end(doc, p) ==
    CHOOSE e \in (p - 1)..Len(doc) :
        /\ \A i \in p..e : ~isspace(doc[i])
        /\ e < Len(doc) => isspace(doc[e + 1])

\* re.findall(r'\s*:{2}(\S+)', doc), the pattern without its anchor: the first
\* place of the string where `::` and a non-blank character follow
findall_unanchored(doc) ==
    LET starts == {k \in 0..Len(doc) :
                        /\ k + 3 <= Len(doc)
                        /\ doc[k + 1] = ":" /\ doc[k + 2] = ":"
                        /\ ~isspace(doc[k + 3])}
    IN  IF starts = {} THEN <<>>
        ELSE LET k == CHOOSE x \in starts : \A y \in starts : x <= y
             IN  << SubSeq(doc, k + 3, nonspace_end(doc, k + 3)) >>

\* re.findall(r'^\s*:{2}(\S+)', doc): without re.MULTILINE the pattern matches
\* at the start of the string only; \s* gives blanks back until `::` and one
\* non-blank character follow; the result is the list of the groups captured
findall(doc) ==
    LET starts == {k \in 0..leading_space(doc) :
                        /\ k + 3 <= Len(doc)
                        /\ doc[k + 1] = ":" /\ doc[k + 2] = ":"
                        /\ ~isspace(doc[k + 3])}
    IN  IF starts = {} THEN <<>>
        ELSE LET k == CHOOSE x \in starts : \A y \in starts : y <= x
             IN  << SubSeq(doc, k + 3, nonspace_end(doc, k + 3)) >>

\* str.split(','): the pieces between the commas, empty ones included
RECURSIVE split(_)
split(str) ==
    IF \A i \in 1..Len(str) : str[i] # ","
    THEN << str >>
    ELSE LET i == CHOOSE x \in 1..Len(str) :
                    str[x] = "," /\ \A y \in 1..(x - 1) : str[y] # ","
         IN  << SubSeq(str, 1, i - 1) >> \o split(SubSeq(str, i + 1, Len(str)))

\* eval(obj) in the globals of the notebook module, where F is bound to the
\* class Frame and S to the class SubFrame: the class, or the exception raised
eval(obj) ==
    IF obj = <<"F">> THEN [cls |-> "Frame", outcome |-> "ok"]
    ELSE IF obj = <<"S">> THEN [cls |-> "SubFrame", outcome |-> "ok"]
    ELSE IF obj # <<>> /\ \A i \in 1..Len(obj) : obj[i] \in {"F", "S"}
    THEN [cls |-> None, outcome |-> "NameError"]
    ELSE [cls |-> None, outcome |-> "SyntaxError"]

\* the loop `for obj in objects: setattr(eval(obj), name, func)` from
\* objects[j] on, stopping at the first exception
RECURSIVE add_to_objects(_, _, _, _, _)
add_to_objects(st, objects, j, name, func) ==
    IF j > Len(objects) THEN st
    ELSE LET r == eval(objects[j])
         IN  IF r.outcome # "ok" THEN [st EXCEPT !.outcome = r.outcome]
             ELSE IF ~Mutable(r.cls) THEN [st EXCEPT !.outcome = "TypeError(setattr)"]
             ELSE add_to_objects(
                    [st EXCEPT !.attrs = setattr(@, r.cls, name, func),
                               !.log = Append(@, <<r.cls, name, func>>)],
                    objects, j + 1, name, func)

\* _add_func_to_class(name, func) for a func whose __doc__ is doc; st.found
\* gets the name and the list `objects` when the pattern was found
_add_func_to_class(st, name, func, doc) ==
    IF doc # NoDoc /\ doc # <<>>
    THEN LET objects == findall(doc)
         IN  IF Len(objects) > 0
             THEN add_to_objects(
                    [st EXCEPT !.found = Append(@, <<name, split(objects[1])>>)],
                    split(objects[1]), 1, name, func)
             ELSE st
    ELSE st

\* callable(func)
callable(o) == ~o.wrapped /\ o.def \in {"f1", "f2"}

\* the names bound in the globals of the module
PoolNames == {"shape", "nrows", "nrows_"}

\* name.rstrip('_')
rstrip(name) == IF name = "nrows_" THEN "nrows" ELSE name

\* the loop of _add_all_funcs_to_classes over list(globals().items()) from
\* pool[i] on, stopping at the first exception
RECURSIVE add_all_from(_, _, _)
add_all_from(st, pool, i) ==
    IF i > Len(pool) THEN st
    ELSE IF callable(pool[i].obj) \/ isproperty(pool[i].obj)
    THEN LET s1 == _add_func_to_class(st, rstrip(pool[i].name),
                                      pool[i].obj, pool[i].doc)
         IN  IF s1.outcome # "ok" THEN s1 ELSE add_all_from(s1, pool, i + 1)
    ELSE add_all_from(st, pool, i + 1)

\* _add_all_funcs_to_classes(): class dictionaries afterwards, the
\* attachments made (class, name, func), the lists found and the outcome
_add_all_funcs_to_classes(at, pool) ==
    add_all_from([attrs |-> at, log |-> <<>>, found |-> <<>>, outcome |-> "ok"],
                 pool, 1)

\* the docstrings given to the functions of a module that is scanned whole
PoolDocs ==
    { NoDoc, <<>>, <<"F">>, <<":", ":", "F">>, <<":", ":", "S">>,
      <<":", ":", "F", ",", "S">>, <<" ", ":", ":", "S">>,
      <<":", ":", "F", "F">>, <<":", ":", "S", ",", ":">>,
      <<":", ":", ":", ",", "F">> } \cap (Docs \cup {NoDoc})

\* one binding of the module globals: name, object and the object's __doc__
Candidates ==
    {[name |-> n, obj |-> Obj(d), doc |-> doc] :
        n \in PoolNames, d \in {"f1", "p", "v"}, doc \in PoolDocs}

\* the globals of a module: bindings under distinct names, in insertion order
RECURSIVE PoolsOf(_)
PoolsOf(k) ==
    IF k = 0 THEN {<<>>}
    ELSE LET shorter == PoolsOf(k - 1)
         IN  shorter \cup
             {Append(s, c) : s \in {x \in shorter : Len(x) = k - 1},
                             c \in Candidates}

Pools == {s \in PoolsOf(MaxPool) :
            \A i, j \in 1..Len(s) : i # j => s[i].name # s[j].name}

\* a scan may start
ScanIdle == scan.op = "none" /\ ncalls < MaxCalls

\* the state after a scan with result r
ScanDone(op, pool, r) ==
    /\ attrs' = r.attrs
    /\ scan' = [op |-> op, pool |-> pool, log |-> r.log, found |-> r.found,
                outcome |-> r.outcome]
    /\ pre' = [attrs |-> attrs, history |-> history]
    /\ ncalls' = ncalls + 1
    /\ UNCHANGED <<pandas_vars, history, source, last, threads>>

\* a call _add_func_to_class(name, func)
AddFuncToClass ==
    /\ ScanIdle
    /\ \E n \in Names, d \in {"f1", "p"}, doc \in Docs \cup {NoDoc} :
        \E r \in {_add_func_to_class(
                    [attrs |-> attrs, log |-> <<>>, found |-> <<>>, outcome |-> "ok"],
                    n, Obj(d), doc)} :
            ScanDone("_add_func_to_class",
                     << [name |-> n, obj |-> Obj(d), doc |-> doc] >>, r)

\* a call _add_all_funcs_to_classes() in a module whose globals are pool
AddAllFuncsToClasses ==
    /\ ScanIdle
    /\ \E pool \in Pools :
        \E r \in {_add_all_funcs_to_classes(attrs, pool)} :
            ScanDone("_add_all_funcs_to_classes", pool, r)

\* control is back at the caller of the scan
ScanReturn ==
    /\ scan.op # "none"
    /\ ncalls < MaxCalls
    /\ scan' = NoScan
    /\ pre' = [attrs |-> attrs, history |-> history]
    /\ UNCHANGED <<pandas_vars, attrs, history, source, last, ncalls, threads>>

NextDiscovery ==
    \/ AddFuncToClass
    \/ AddAllFuncsToClasses
    \/ ScanReturn

SpecDiscovery == Init /\ [][NextDiscovery]_vars

\* ---------------------------------------------------------------------------
\* Threads: Inject._inject_attr_and_cache called from several threads of one
\* process. The method takes no lock; a thread can be switched out between
\* any two of its reads and writes of the class dictionaries and the history.
\* ---------------------------------------------------------------------------

\* thread i enters _inject_attr_and_cache and runs the as_property block,
\* which touches nothing but its own arguments
ThreadCall(i) ==
    /\ threads[i].pc = "idle"
    /\ ncalls < MaxCalls
    /\ \E t \in Types, n \in Names, d \in Defs, ow \in BOOLEAN, ap \in BOOLEAN :
        threads' = [threads EXCEPT ![i] =
            IF as_property_check(Obj(d), ap) # "ok"
            THEN [pc |-> "done", target_cls |-> t, attr_name |-> n,
                  attr_obj |-> Obj(d), overwrite |-> ow, as_property |-> ap,
                  outcome |-> as_property_check(Obj(d), ap)]
            ELSE [pc |-> IF ow THEN "record" ELSE "validate",
                  target_cls |-> t, attr_name |-> n,
                  attr_obj |-> as_property_convert(Obj(d), ap),
                  overwrite |-> ow, as_property |-> ap, outcome |-> "ok"]]
    /\ ncalls' = ncalls + 1
    /\ UNCHANGED <<pandas_vars, attrs, history, source, last, pre, scan>>

\* _validate_non_existing_attribute, first operand of the `and`:
\* hasattr(target_cls, attr_name)
ThreadHasattr(i) ==
    /\ threads[i].pc = "validate"
    /\ threads' = [threads EXCEPT ![i].pc =
            IF hasattr(attrs, threads[i].target_cls, threads[i].attr_name)
            THEN "lookup" ELSE "record"]
    /\ UNCHANGED <<pandas_vars, attrs, history, source, last, pre, ncalls, scan>>

\* _validate_non_existing_attribute, second operand: history_key not in
\* cls.history, and the raise
ThreadLookup(i) ==
    /\ threads[i].pc = "lookup"
    /\ threads' = [threads EXCEPT ![i] =
            IF _make_history_key(threads[i].target_cls, threads[i].attr_name)
                    \notin history
            THEN [@ EXCEPT !.pc = "done", !.outcome = "ExistingAttributeError"]
            ELSE [@ EXCEPT !.pc = "record"]]
    /\ UNCHANGED <<pandas_vars, attrs, history, source, last, pre, ncalls, scan>>

\* cls.history.add(cls._make_history_key(target_cls, attr_name))
ThreadRecord(i) ==
    /\ threads[i].pc = "record"
    /\ history' = history \cup
            {_make_history_key(threads[i].target_cls, threads[i].attr_name)}
    /\ threads' = [threads EXCEPT ![i].pc = "attach"]
    /\ UNCHANGED <<pandas_vars, attrs, source, last, pre, ncalls, scan>>

\* setattr(target_cls, attr_name, attr_obj)
ThreadAttach(i) ==
    /\ threads[i].pc = "attach"
    /\ IF Mutable(threads[i].target_cls)
       THEN /\ attrs' = setattr(attrs, threads[i].target_cls,
                                threads[i].attr_name, threads[i].attr_obj)
            /\ threads' = [threads EXCEPT ![i].pc = "done"]
       ELSE /\ attrs' = attrs
            /\ threads' = [threads EXCEPT ![i].pc = "done",
                                          ![i].outcome = "TypeError(setattr)"]
    /\ UNCHANGED <<pandas_vars, history, source, last, pre, ncalls, scan>>

\* the call of thread i has returned or raised; the thread is free again
ThreadReturn(i) ==
    /\ threads[i].pc = "done"
    /\ threads' = [threads EXCEPT ![i] = NoThread]
    /\ UNCHANGED <<pandas_vars, attrs, history, source, last, pre, ncalls, scan>>

NextThreads ==
    \E i \in Threads :
        \/ ThreadCall(i)
        \/ ThreadHasattr(i)
        \/ ThreadLookup(i)
        \/ ThreadRecord(i)
        \/ ThreadAttach(i)
        \/ ThreadReturn(i)

SpecThreads == Init /\ [][NextThreads]_vars

\* ---------------------------------------------------------------------------
\* pandas_plugin.py: move_col (notebooks/workspace.py holds the same function)
\* ---------------------------------------------------------------------------

\* column names
Cols == {"a", "b", "c", "d"}

\* the placeholder move_col writes over the moved column
Placeholder == "7dwIFmVgq5f1z"

\* the column lists of the frames: distinct names, at most MaxCols of them
RECURSIVE ColumnLists(_)
ColumnLists(k) ==
    IF k = 0 THEN {<<>>}
    ELSE LET shorter == ColumnLists(k - 1)
         IN  shorter \cup
             {Append(s, c) : s \in {x \in shorter : Len(x) = k - 1}, c \in Cols}

Frames == {s \in ColumnLists(MaxCols) : Distinct(s)}

\* the values of the parameter target: column names and integers
MoveTargets ==
    {[kind |-> "str", val |-> c] : c \in Cols}
        \cup {[kind |-> "int", val |-> i] : i \in (0 - MaxCols - 1)..(MaxCols + 1)}

\* x in cols
contains(cols, x) == \E i \in 1..Len(cols) : cols[i] = x

\* cols.index(x), counted from 0, for an x that cols holds
index(cols, x) ==
    (CHOOSE i \in 1..Len(cols) : cols[i] = x /\ \A j \in 1..(i - 1) : cols[j] # x) - 1

\* cols.remove(x) for an x that cols holds: the list without its first x
remove(cols, x) ==
    SubSeq(cols, 1, index(cols, x)) \o SubSeq(cols, index(cols, x) + 2, Len(cols))

\* cols.insert(idx, x): a negative idx counts from the end, and an idx beyond
\* either end is taken as that end
insert(cols, idx, x) ==
    LET n == Len(cols)
        pos == IF idx < 0 THEN (IF n + idx < 0 THEN 0 ELSE n + idx)
               ELSE IF idx > n THEN n ELSE idx
    IN  SubSeq(cols, 1, pos) \o <<x>> \o SubSeq(cols, pos + 1, n)

\* cols[i] = x for an i counted from 0
setitem(cols, i, x) == [cols EXCEPT ![i + 1] = x]

\* move_col(self, name, target) on a frame whose columns are `columns`: the
\* columns of the frame returned, or the exception of list.remove/list.index
move_col(columns, name, target) ==
    IF target.kind = "int"
    THEN IF ~contains(columns, name)
         THEN [result |-> <<>>, outcome |-> "ValueError"]
         ELSE [result |-> insert(remove(columns, name), target.val, name),
               outcome |-> "ok"]
    ELSE IF ~contains(columns, target.val) \/ ~contains(columns, name)
    THEN [result |-> <<>>, outcome |-> "ValueError"]
    ELSE [result |-> remove(insert(setitem(columns, index(columns, name), Placeholder),
                                   index(columns, target.val), name),
                            Placeholder),
          outcome |-> "ok"]

\* a call self.move_col(name, target); `after` is list(self.columns) once the
\* call is over, the function having worked on a copy of the list
MoveCol ==
    /\ df.op = "none"
    /\ \E columns \in Frames, name \in Cols, target \in MoveTargets :
        \E r \in {move_col(columns, name, target)} :
            df' = [op |-> "move_col", columns |-> columns, after |-> columns,
                   name |-> name, target |-> target,
                   result |-> r.result, outcome |-> r.outcome]
    /\ UNCHANGED <<attrs, history, source, last, pre, ncalls, scan, threads,
                   sql, heap, out>>

\* the frame returned is dropped
MoveColReturn ==
    /\ df.op = "move_col"
    /\ df' = NoFrame
    /\ UNCHANGED <<attrs, history, source, last, pre, ncalls, scan, threads,
                   sql, heap, out>>

NextMoveCol ==
    \/ MoveCol
    \/ MoveColReturn

SpecMoveCol == Init /\ [][NextMoveCol]_vars

\* ---------------------------------------------------------------------------
\* workspace.py: to_sql and read_sql over the dictionary sql, and
\* pandas_plugin.py: set_columns, which changes a frame in place
\* ---------------------------------------------------------------------------

\* what a table or a DataFrame holds: its rows, and whether its columns carry
\* the names they had when read or new ones
Contents == [data : 1..2, columns : {"orig", "renamed"}]

\* the table a query text reads
table_of(query) == IF query = "SELECT * FROM u;" THEN "u" ELSE "t"

\* the DataFrame objects that exist
Allocated == {i \in Objects : heap[i] # Missing}

\* the next object created
NewObject == CHOOSE i \in Objects \ Allocated : \A j \in Objects \ Allocated : i <= j

\* another call can be made
SqlIdle == out.n < MaxSqlOps

\* to_sql(df, name, con): df.to_sql(name, con=sql[con]['con'],
\* if_exists='replace') replaces the table by the contents of df; the cache
\* is not looked at
to_sql(s, contents, name, con) ==
    [s EXCEPT ![con].tables[name] = contents]

\* sql[con]['cache'].get(query, None)
cache_get(s, con, query) == s[con].cache[query]

\* pd.read_sql(query, con=sql[con]['con']): the contents of the table, or an
\* error when the database has no such table
pd_read_sql(s, con, query) == s[con].tables[table_of(query)]

\* read_sql with the query text of line 54: a cached frame is copied into a
\* new object; otherwise the frame read is stored in the cache and that same
\* object is returned
read_sql(s, h, query, con) ==
    IF cache_get(s, con, query) # NoObject
    THEN [sql |-> s,
          heap |-> [h EXCEPT ![NewObject] = h[cache_get(s, con, query)]],
          ret |-> NewObject, outcome |-> "ok"]
    ELSE IF pd_read_sql(s, con, query) = Missing
    THEN [sql |-> s, heap |-> h, ret |-> NoObject, outcome |-> "DatabaseError"]
    ELSE [sql |-> [s EXCEPT ![con].cache[query] = NewObject],
          heap |-> [h EXCEPT ![NewObject] = pd_read_sql(s, con, query)],
          ret |-> NewObject, outcome |-> "ok"]

\* set_columns(self, *new): self.columns = new; return self
set_columns(h, self) == [h EXCEPT ![self].columns = "renamed"]

\* a call to_sql(df, name, con) with a frame the caller built
ToSql ==
    /\ SqlIdle
    /\ \E contents \in Contents, name \in Tables, con \in Connections :
        /\ sql' = to_sql(sql, contents, name, con)
        /\ out' = [op |-> "to_sql", con |-> con, arg |-> name, ret |-> NoObject,
                   outcome |-> "ok", n |-> out.n + 1]
    /\ UNCHANGED <<attrs, history, source, last, pre, ncalls, scan, threads,
                   df, heap>>

\* a call read_sql(..., con=con) whose query text is query
ReadSql ==
    /\ SqlIdle
    /\ Allocated # Objects
    /\ \E query \in Queries, con \in Connections :
        \E r \in {read_sql(sql, heap, query, con)} :
            /\ sql' = r.sql
            /\ heap' = r.heap
            /\ out' = [op |-> "read_sql", con |-> con, arg |-> query,
                       ret |-> r.ret, outcome |-> r.outcome, n |-> out.n + 1]
    /\ UNCHANGED <<attrs, history, source, last, pre, ncalls, scan, threads,
                   df>>

\* the caller renames the columns of a frame read_sql returned to it
SetColumns ==
    /\ SqlIdle
    /\ \E self \in Allocated :
        /\ heap[self].columns = "orig"
        /\ heap' = set_columns(heap, self)
        /\ out' = [op |-> "set_columns", con |-> out.con, arg |-> "renamed",
                   ret |-> self, outcome |-> "ok", n |-> out.n + 1]
    /\ UNCHANGED <<attrs, history, source, last, pre, ncalls, scan, threads,
                   df, sql>>

NextSql ==
    \/ ToSql
    \/ ReadSql
    \/ SetColumns

SpecSql == Init /\ [][NextSql]_vars

\* ---------------------------------------------------------------------------
\* Reading the record of the last call
\* ---------------------------------------------------------------------------

IsOne == last.op = "inject_one"

\* target, name and definition of the last inject_one call
T == last.to[1]

N == last.body[1].name

D == last.body[1].obj

Key == _make_history_key(T, N)

\* what a successful attempt leaves under the name: the definition, wrapped
\* as a property when as_property asks for it and the definition is a function
Bound(obj, as_property) ==
    IF as_property /\ obj.def \in {"f1", "f2"} /\ ~obj.wrapped
    THEN [def |-> obj.def, wrapped |-> TRUE] ELSE obj

\* the definition passes the checks that as_property=True puts first
PassesPropertyCheck(obj, as_property) ==
    \/ ~as_property
    \/ obj.def = "p"
    \/ obj.def = "f1"

Unchanged == attrs = pre.attrs /\ history = pre.history

\* ---------------------------------------------------------------------------
\* Claims
\* ---------------------------------------------------------------------------

\* an inject_one call passed overwrite=False on a name the target exposed
\* and whose key the history did not hold
C1_Conflict ==
    IsOne /\ ~last.overwrite /\ hasattr(pre.attrs, T, N) /\ Key \notin pre.history

\* C1 - conflict detection: an inject_one call with overwrite=False on a
\* name the target already exposes and whose key is not in the history leaves
\* the class dictionaries and the history as they were, and raises
\* ExistingAttributeError (the definition being one that passes the
\* as_property check, which the call makes first).
C1_ConflictDetection ==
    C1_Conflict =>
        /\ Unchanged
        /\ getattr(attrs, T, N) = getattr(pre.attrs, T, N)
        /\ PassesPropertyCheck(D, last.as_property)
            => last.outcome = "ExistingAttributeError"

C1_Witness ==
    /\ C1_Conflict
    /\ last.outcome = "ExistingAttributeError"
    /\ getattr(attrs, T, N) = Orig

\* a first inject_one call on a name the target did not expose, and the same
\* call on the state such a call leaves
C2_FirstCall ==
    /\ IsOne /\ ~last.overwrite /\ Mutable(T)
    /\ ~hasattr(pre.attrs, T, N)
    /\ PassesPropertyCheck(D, last.as_property)

C2_SecondCall ==
    /\ IsOne /\ ~last.overwrite /\ Mutable(T)
    /\ PassesPropertyCheck(D, last.as_property)
    /\ Key \in pre.history
    /\ pre.attrs[T][N] = Bound(D, last.as_property)

\* C2 - idempotent re-application: inject_one with overwrite=False on a
\* target that takes attributes and did not expose the name succeeds, and
\* the same call made again succeeds too, leaving the name bound to the
\* definition and the pair recorded once.
C2_Idempotent ==
    /\ C2_FirstCall =>
        /\ last.outcome = "ok"
        /\ \A again \in {_inject_attr_and_cache(attrs, history, T, N, D,
                                                FALSE, last.as_property)} :
            /\ again.outcome = "ok"
            /\ again.attrs[T][N] = Bound(D, last.as_property)
            /\ again.attrs = attrs
            /\ Key \in again.history
            /\ again.history = history
    /\ C2_SecondCall =>
        /\ last.outcome = "ok"
        /\ Unchanged
        /\ attrs[T][N] = Bound(D, last.as_property)

C2_Witness ==
    /\ C2_SecondCall
    /\ ~last.as_property
    /\ ~hasattr(InitAttrs, T, N)
    /\ last.outcome = "ok"
    /\ attrs[T][N] = D
    /\ Key \in history

\* C3 - central safety contract: in a run whose calls all pass
\* overwrite=False, every attribute a host type had before the framework
\* attached anything under that name is still in place, and a call that would
\* replace one raises ExistingAttributeError; this for every pair of distinct
\* types, those with one module name and one type name included.
C3_NoClobbering ==
    /\ \A t \in Types, n \in Names : InitAttrs[t][n] = Orig => attrs[t][n] = Orig
    /\ (/\ IsOne /\ pre.attrs[T][N] = Orig /\ Mutable(T)
        /\ PassesPropertyCheck(D, last.as_property))
            => last.outcome = "ExistingAttributeError"

\* C4 - history-key injectivity: the key of a pair the framework has
\* attempted is the key of no other (type, name) pair.
C4_KeyInjective ==
    \A i \in 1..Len(last.log) : \A t \in Types, n \in Names :
        _make_history_key(t, n) = _make_history_key(last.log[i][1], last.log[i][2])
            => t = last.log[i][1] /\ n = last.log[i][2]

\* an inject_one call passed overwrite=True on a name the target exposed and
\* whose key the history did not hold
C5_Overwriting ==
    /\ IsOne /\ last.overwrite /\ Mutable(T)
    /\ hasattr(pre.attrs, T, N) /\ Key \notin pre.history
    /\ PassesPropertyCheck(D, last.as_property)

\* C5 - overwrite escape hatch: inject_one with overwrite=True on a name the
\* target (a type that takes attributes) already exposes and whose key is not
\* in the history raises nothing, leaves the name resolving to the definition
\* and adds the key to the history.
C5_OverwriteEscapeHatch ==
    C5_Overwriting =>
        /\ last.outcome = "ok"
        /\ getattr(attrs, T, N) = Bound(D, last.as_property)
        /\ history = pre.history \cup {Key}

C5_Witness ==
    /\ C5_Overwriting
    /\ pre.attrs[T][N] = Orig
    /\ ~last.as_property
    /\ last.outcome = "ok"
    /\ getattr(attrs, T, N) = D
    /\ Key \in history

\* an inject_one call passed as_property=True and a plain function that does
\* not take exactly one positional parameter
C6_WrongArity ==
    /\ IsOne /\ last.as_property
    /\ D.def \in {"f1", "f2"} /\ ~D.wrapped
    /\ num_params(D) # 1

\* C6 - arity check of the property conversion: inject_one with
\* as_property=True and a plain function that does not take exactly one
\* positional parameter raises ValueError, whatever overwrite is, and changes
\* neither the class dictionaries nor the history.
C6_ArityCheck ==
    C6_WrongArity => last.outcome = "ValueError" /\ Unchanged

C6_Witness ==
    /\ C6_WrongArity
    /\ last.overwrite
    /\ hasattr(pre.attrs, T, N)
    /\ last.outcome = "ValueError"
    /\ Unchanged

\* an inject_one call passed as_property=True and a class-level constant, or
\* an object that is a property already
C7_NotCallable == IsOne /\ last.as_property /\ D.def = "v"

C7_AlreadyProperty == IsOne /\ last.as_property /\ D.def = "p"

\* C7 - not-callable check: inject_one with as_property=True and a definition
\* that is neither a function nor a property raises TypeError with the class
\* dictionaries and the history unchanged; a definition that is a property
\* already meets neither that check nor the arity check and, when the call
\* succeeds, is attached as it is, not wrapped again.
C7_NotCallableCheck ==
    /\ C7_NotCallable => last.outcome = "TypeError" /\ Unchanged
    /\ C7_AlreadyProperty =>
        /\ last.outcome \notin {"TypeError", "ValueError"}
        /\ last.outcome = "ok" => attrs[T][N] = [def |-> "p", wrapped |-> FALSE]

C7_Witness ==
    /\ C7_NotCallable
    /\ ~last.overwrite
    /\ hasattr(pre.attrs, T, N) /\ Key \notin pre.history
    /\ last.outcome = "TypeError"
    /\ Unchanged

\* C8 - all or nothing: an inject_one call either attaches the definition
\* under the name and has the key in the history, or fails and leaves the
\* class dictionaries and the history as they were; so every record of the
\* history is of a pair that was attached.
C8_AllOrNothing ==
    IsOne =>
        \/ /\ last.outcome = "ok"
           /\ attrs[T][N] = Bound(D, last.as_property)
           /\ Key \in history
        \/ /\ last.outcome # "ok"
           /\ Unchanged

\* C9 - additive-only registry: no step of any entry point removes a record
\* from the history.
C9_HistoryOnlyGrows == [][history \subseteq history']_vars

C9_Witness ==
    /\ last.op # "none"
    /\ pre.history # {}
    /\ pre.history \subseteq history
    /\ history # pre.history

\* the last call ran Inject.inject_class_contents
IsBundle ==
    \/ last.op \in {"inject_class_contents", "init_subclass", "get_subclass"}
    \/ last.op = "inject" /\ last.element = "class"

\* the pairs (target, name) of a class body and a target list, definition-major
DefinitionMajor(body, to) ==
    [k \in 1..(Len(body) * Len(to)) |->
        << to[((k - 1) % Len(to)) + 1], body[((k - 1) \div Len(to)) + 1].name >>]

IsPrefix(s, t) == Len(s) <= Len(t) /\ \A i \in 1..Len(s) : s[i] = t[i]

\* C10 - bundle ordering and completeness: a call that runs
\* inject_class_contents attempts the pairs definition by definition in
\* declared order and, for each definition, target by target in the order
\* given; when no attempt fails the attempts are all the pairs, every target
\* has every name of the class body bound to its definition, and every pair
\* is in the history.
C10_BundleOrder ==
    IsBundle =>
        /\ IsPrefix(last.log, DefinitionMajor(last.body, last.to))
        /\ last.outcome = "ok" =>
            /\ last.log = DefinitionMajor(last.body, last.to)
            /\ \A i \in 1..Len(last.body), j \in 1..Len(last.to) :
                /\ attrs[last.to[j]][last.body[i].name]
                        = Bound(last.body[i].obj, last.as_property)
                /\ _make_history_key(last.to[j], last.body[i].name) \in history

C10_Witness ==
    /\ IsBundle
    /\ last.outcome = "ok"
    /\ Len(last.body) = 2 /\ Len(last.to) = 2
    /\ last.log = DefinitionMajor(last.body, last.to)
    /\ \A i \in 1..2, j \in 1..2 :
        attrs[last.to[j]][last.body[i].name] = last.body[i].obj

\* the definition a class body binds under name n
BodyObj(body, n) == body[CHOOSE i \in 1..Len(body) : body[i].name = n].obj

\* the attempts a bundle call made before the one that failed
Earlier == 1..(Len(last.log) - 1)

\* C11 - bundle abort without rollback: a call that runs inject_class_contents
\* and stops before the last pair has raised an exception to its caller; when
\* it raises, the failed pair is the last one attempted, every pair attempted
\* before it is still attached and recorded, and the failed pair and the
\* pairs after it in the iteration order have the attributes they had.
C11_BundleAbort ==
    IsBundle =>
        LET all == DefinitionMajor(last.body, last.to)
        IN  /\ Len(last.log) < Len(all) => last.outcome # "ok"
            /\ last.outcome # "ok" =>
                /\ Len(last.log) >= 1
                /\ IsPrefix(last.log, all)
                /\ \A k \in Earlier :
                    /\ attrs[last.log[k][1]][last.log[k][2]]
                            = Bound(BodyObj(last.body, last.log[k][2]), last.as_property)
                    /\ _make_history_key(last.log[k][1], last.log[k][2]) \in history
                /\ \A k \in Len(last.log)..Len(all) :
                    attrs[all[k][1]][all[k][2]] = pre.attrs[all[k][1]][all[k][2]]

C11_Witness ==
    /\ IsBundle
    /\ last.outcome = "ExistingAttributeError"
    /\ Len(last.body) = 2 /\ Len(last.to) = 2
    /\ Len(last.log) = 3
    /\ \A k \in Earlier :
        /\ pre.attrs[last.log[k][1]][last.log[k][2]] = Absent
        /\ attrs[last.log[k][1]][last.log[k][2]] = BodyObj(last.body, last.log[k][2])
        /\ _make_history_key(last.log[k][1], last.log[k][2]) \in history \ pre.history

\* the del_old_attrs that inject_class_contents received: the caller's, but
\* for the decorator, whose call passes none and leaves the default, True
DelPassed == IF last.op = "inject" THEN TRUE ELSE last.del_old_attrs

\* the source class of the last bundle call holds name n
Held(n) == \E i \in 1..Len(source) : source[i].name = n

\* C12 - source deletion in a bundle: with del_old_attrs true a definition is
\* gone from the originating class only when it was attempted on every
\* target, and after a bundle that completes the class holds none of the
\* injected names; with del_old_attrs false it keeps all of them; when the
\* bundle aborts at a definition, that definition and every later one are
\* still held.
C12_SourceDeletion ==
    IsBundle =>
        /\ ~DelPassed => \A i \in 1..Len(last.body) : Held(last.body[i].name)
        /\ DelPassed =>
            /\ last.outcome = "ok" =>
                \A i \in 1..Len(last.body) : ~Held(last.body[i].name)
            /\ \A i \in 1..Len(last.body) :
                ~Held(last.body[i].name) =>
                    \A j \in 1..Len(last.to) :
                        \E k \in 1..Len(last.log) :
                            last.log[k] = <<last.to[j], last.body[i].name>>
            /\ last.outcome # "ok" =>
                \A i \in 1..Len(last.body) :
                    (\E m \in 1..i : last.body[m].name = last.log[Len(last.log)][2])
                        => Held(last.body[i].name)

C12_Witness ==
    /\ IsBundle /\ last.op # "inject"
    /\ last.del_old_attrs
    /\ last.outcome # "ok"
    /\ Len(last.body) = 2 /\ Len(last.to) = 2
    /\ ~Held(last.body[1].name)
    /\ Held(last.body[2].name)
    /\ last.log[Len(last.log)][2] = last.body[2].name

\* C13 - the decorator honours del_old_attrs: after inject(...,
\* del_old_attrs=False) has decorated a class, the class still holds all of
\* its custom attributes.
C13_DecoratorKeepsAttrs ==
    (last.op = "inject" /\ last.element = "class" /\ ~last.del_old_attrs)
        => \A i \in 1..Len(last.body) : Held(last.body[i].name)

\* issubclass(t, b)
RECURSIVE issubclass(_, _)
issubclass(t, b) == t = b \/ (Base(t) # NoBase /\ issubclass(Base(t), b))

\* C14 - independent namespacing: an inject_one call on (T1, x) changes, for
\* every other type T2 (not a subclass of T1, which inherits what T1 gets),
\* neither the attributes T2 exposes nor the outcome of the conflict check on
\* (T2, x): it raised ExistingAttributeError before the call exactly when it
\* does after it.
C14_IndependentNamespacing ==
    IsOne =>
        \A t2 \in Types :
            ~issubclass(t2, T) =>
                /\ attrs[t2] = pre.attrs[t2]
                /\ \A n \in Names : hasattr(attrs, t2, n) = hasattr(pre.attrs, t2, n)
                /\ _validate_non_existing_attribute(attrs, history, t2, N)
                    = _validate_non_existing_attribute(pre.attrs, pre.history, t2, N)

\* C15 - uniform contract for both entry points: what the docstring scan
\* attaches goes through inject_one: every pair it attached is recorded in the
\* history, and no attribute that a type had, under a pair the history does
\* not hold, is replaced.
C15_ScanThroughInjectOne ==
    scan.op # "none" =>
        /\ \A k \in 1..Len(scan.log) :
            _make_history_key(scan.log[k][1], scan.log[k][2]) \in history
        /\ \A t \in Types, n \in Names :
            (pre.attrs[t][n] # Absent /\ _make_history_key(t, n) \notin pre.history)
                => attrs[t][n] = pre.attrs[t][n]

\* the candidate is one the scan looks at, its docstring carries the list
\* `objects`, and every name of the list is bound in the module
Resolvable(c) ==
    /\ callable(c.obj) \/ isproperty(c.obj)
    /\ c.doc # NoDoc /\ findall(c.doc) # <<>>
    /\ \A j \in 1..Len(split(findall(c.doc)[1])) :
        eval(split(findall(c.doc)[1])[j]).outcome = "ok"

\* C16 - unresolvable target in the scan: a name that is not bound stops only
\* the candidate that carries it: after a scan that raised nothing or a
\* NameError, every candidate of the pool whose names are all bound is
\* attached to each of its targets.
C16_OtherCandidatesProcessed ==
    (scan.op = "_add_all_funcs_to_classes" /\ scan.outcome \in {"ok", "NameError"}) =>
        \A i \in 1..Len(scan.pool) :
            Resolvable(scan.pool[i]) =>
                \A j \in 1..Len(split(findall(scan.pool[i].doc)[1])) :
                    \E k \in 1..Len(scan.log) :
                        scan.log[k] = << eval(split(findall(scan.pool[i].doc)[1])[j]).cls,
                                         rstrip(scan.pool[i].name),
                                         scan.pool[i].obj >>

\* a docstring without its leading blanks
RECURSIVE lstrip(_)
lstrip(doc) == IF doc # <<>> /\ Head(doc) = " " THEN lstrip(Tail(doc)) ELSE doc

\* the docstring begins, after optional blanks, with a marker ::Target1,Target2
BeginsWithMarker(doc) ==
    /\ doc # NoDoc
    /\ Len(lstrip(doc)) >= 3
    /\ lstrip(doc)[1] = ":" /\ lstrip(doc)[2] = ":" /\ lstrip(doc)[3] # " "

\* the list of the marker: what follows `::` up to the next blank
MarkerList(doc) ==
    LET r == lstrip(doc)
        blanks == {i \in 3..Len(r) : r[i] = " "}
        stop == IF blanks = {} THEN Len(r) + 1
                ELSE CHOOSE i \in blanks : \A j \in blanks : i <= j
    IN  [i \in 1..(stop - 3) |-> r[i + 2]]

\* the names of the marker in written order: the k-th one lies between the
\* (k-1)-th and the k-th comma of the list
MarkerNames(doc) ==
    LET m == MarkerList(doc)
        commas == {i \in 1..Len(m) : m[i] = ","}
        comma(k) == IF k = 0 THEN 0
                    ELSE IF k > Cardinality(commas) THEN Len(m) + 1
                    ELSE CHOOSE i \in commas : Cardinality({j \in commas : j < i}) = k - 1
    IN  [k \in 1..(Cardinality(commas) + 1) |->
            [i \in 1..(comma(k) - comma(k - 1) - 1) |-> m[comma(k - 1) + i]]]

\* the candidate is one _add_all_funcs_to_classes selects
Selected(c) == (callable(c.obj) \/ isproperty(c.obj)) /\ BeginsWithMarker(c.doc)

\* the (name, targets) pairs of a pool, in pool order
PairsOf(pool) ==
    LET sel == SelectSeq(pool, Selected)
    IN  [i \in 1..Len(sel) |-> << rstrip(sel[i].name), MarkerNames(sel[i].doc) >>]

\* C17 - annotation discovery result: _add_func_to_class finds a target list
\* exactly when the docstring begins, after optional blanks, with the marker,
\* and the list is then the comma-separated names of the marker in written
\* order; a candidate without docstring or without marker yields nothing and
\* nothing is attached; the pairs of a whole scan are those of the selected
\* candidates in pool order (all of them when nothing raises), whatever the
\* class dictionaries are, so that the same call made again finds the same.
C17_DiscoveryResult ==
    /\ scan.op = "_add_func_to_class" =>
        LET c == scan.pool[1]
        IN  /\ BeginsWithMarker(c.doc) =>
                scan.found = << <<c.name, MarkerNames(c.doc)>> >>
            /\ ~BeginsWithMarker(c.doc) =>
                /\ scan.found = <<>> /\ scan.log = <<>>
                /\ scan.outcome = "ok"
                /\ attrs = pre.attrs
            /\ \A again \in {_add_func_to_class(
                    [attrs |-> attrs, log |-> <<>>, found |-> <<>>, outcome |-> "ok"],
                    c.name, c.obj, c.doc)} :
                again.found = scan.found
    /\ scan.op = "_add_all_funcs_to_classes" =>
        /\ IsPrefix(scan.found, PairsOf(scan.pool))
        /\ scan.outcome = "ok" => scan.found = PairsOf(scan.pool)
        /\ \A again \in {_add_all_funcs_to_classes(attrs, scan.pool)} :
            again.found = scan.found

C17_Witness ==
    /\ scan.op = "_add_func_to_class"
    /\ scan.pool[1].doc = <<":", ":", "F", ",", "S">>
    /\ scan.found = << <<scan.pool[1].name, << <<"F">>, <<"S">> >> >> >>
    /\ scan.outcome = "ok"
    /\ attrs["Frame"][scan.pool[1].name] = scan.pool[1].obj
    /\ attrs["SubFrame"][scan.pool[1].name] = scan.pool[1].obj

\* thread i has passed the conflict check of a call with overwrite=False and
\* has not yet both recorded and attached
InCheckThenSet(i) ==
    /\ ~threads[i].overwrite
    /\ threads[i].pc \in {"record", "attach"}

\* C18 - critical section under concurrency: of the threads that run
\* inject_one on one (target, name) with overwrite=False, at most one at a
\* time is between passing the conflict check and having attached and
\* recorded.
C18_MutualExclusion ==
    \A i, j \in Threads :
        (/\ i # j
         /\ threads[i].target_cls = threads[j].target_cls
         /\ threads[i].attr_name = threads[j].attr_name
         /\ InCheckThenSet(i))
            => ~InCheckThenSet(j)

\* the custom attributes a class dictionary holds
CustomAttrs(dict) ==
    {dict[i] : i \in 1..Len(dict)}
        \ {[name |-> n, obj |-> Dunder] :
                n \in {"__weakref__", "__dict__", "__module__", "__doc__"}}

\* the outcome r of one bundle form is what the last call, of the other form,
\* left
SameAsLast(r) ==
    /\ r.attrs = attrs
    /\ r.history = history
    /\ r.outcome = last.outcome
    /\ r.log = last.log
    /\ CustomAttrs(r.source) = CustomAttrs(source)

\* C19 - equivalence of the two bundle forms: with one class body, the same
\* targets and the same overwrite and as_property (del_old_attrs left at its
\* default), `class _(Inject, to=T, ...)` and `@inject(T, ...)` on a plain
\* class leave the same class dictionaries on the targets, the same history,
\* the same exception and the same custom attributes on the source class.
C19_BundleFormsEquivalent ==
    /\ (last.op = "init_subclass" /\ last.del_old_attrs) =>
        \A r \in {inner_class(pre.attrs, pre.history, class_dict(last.body, FALSE),
                              last.to, last.overwrite, TRUE, last.as_property)} :
            SameAsLast(r)
    /\ (last.op = "inject" /\ last.element = "class" /\ last.del_old_attrs) =>
        \A r \in {inject_class_contents(pre.attrs, pre.history,
                              class_dict(last.body, TRUE),
                              last.to, last.overwrite, TRUE, last.as_property)} :
            SameAsLast(r)

C19_Witness ==
    /\ last.op = "init_subclass" /\ last.del_old_attrs
    /\ last.as_property
    /\ Len(last.body) = 2 /\ Len(last.to) = 2
    /\ last.outcome = "ExistingAttributeError"
    /\ Len(last.log) = 4
    /\ attrs # pre.attrs
    /\ Held(last.body[2].name) /\ ~Held(last.body[1].name)

\* the last call applied the decorator to something that is not a class
IsDecoratedElement == last.op = "inject" /\ last.element = "element"

\* C20 - decorator on a single definition: inject(T1, ..., Tn) on a function
\* or a property attempts the targets in the order given under the element's
\* own name; when no attempt fails every target has the name bound to the
\* element and recorded; when the attempt on Ti fails, T1..Ti-1 are attached
\* and recorded and the class dictionaries of Ti..Tn are as they were; on
\* anything else it raises ValueError and changes nothing.
C20_DecoratedElement ==
    IsDecoratedElement =>
        LET e == last.body[1]
            Attached(j) ==
                /\ attrs[last.to[j]][e.name] = Bound(e.obj, last.as_property)
                /\ _make_history_key(last.to[j], e.name) \in history
        IN  IF e.obj.def \in {"f1", "f2", "p"}
            THEN /\ e.name = def_name(e.obj.def)
                 /\ Len(last.log) <= Len(last.to)
                 /\ \A k \in 1..Len(last.log) : last.log[k] = <<last.to[k], e.name>>
                 /\ last.outcome = "ok" =>
                        /\ Len(last.log) = Len(last.to)
                        /\ \A j \in 1..Len(last.to) : Attached(j)
                 /\ last.outcome # "ok" =>
                        /\ Len(last.log) >= 1
                        /\ \A j \in 1..(Len(last.log) - 1) : Attached(j)
                        /\ \A j \in Len(last.log)..Len(last.to) :
                                attrs[last.to[j]] = pre.attrs[last.to[j]]
            ELSE last.outcome = "ValueError" /\ last.log = <<>> /\ Unchanged

C20_Witness ==
    /\ IsDecoratedElement
    /\ last.body[1].obj.def = "f1" /\ ~last.as_property
    /\ Len(last.to) = 2 /\ Len(last.log) = 2
    /\ last.outcome = "ExistingAttributeError"
    /\ pre.attrs[last.to[1]]["nrows"] = Absent
    /\ attrs[last.to[1]]["nrows"] = Obj("f1")
    /\ _make_history_key(last.to[1], "nrows") \in history \ pre.history
    /\ attrs[last.to[2]] = pre.attrs[last.to[2]]

\* an inject_one call passed overwrite=False on a recorded pair whose name
\* was bound to something else than the definition it carries
C22_Reinjecting ==
    /\ IsOne /\ ~last.overwrite /\ Mutable(T)
    /\ PassesPropertyCheck(D, last.as_property)
    /\ Key \in pre.history
    /\ pre.attrs[T][N] # Bound(D, last.as_property)

\* C22 - re-injection is last-write-wins: inject_one with overwrite=False on
\* a pair the history holds, with a definition other than the one bound,
\* raises nothing, rebinds the name to the new definition and leaves the
\* history as it was, the pair recorded once.
C22_LastWriteWins ==
    C22_Reinjecting =>
        /\ last.outcome = "ok"
        /\ attrs[T][N] = Bound(D, last.as_property)
        /\ history = pre.history
        /\ Cardinality({k \in history : k = Key}) = 1

C22_Witness ==
    /\ C22_Reinjecting
    /\ InitAttrs[T][N] = Absent
    /\ pre.attrs[T][N] = Obj("f1")
    /\ D = Obj("f2") /\ ~last.as_property
    /\ last.outcome = "ok"
    /\ attrs[T][N] = Obj("f2")
    /\ history = pre.history

\* an inject_one call passed overwrite=True replaced an attribute the type
\* had of its own and the history did not hold
C23_Overwrote ==
    /\ IsOne /\ last.overwrite /\ last.outcome = "ok"
    /\ pre.attrs[T][N] = Orig /\ Key \notin pre.history

\* C23 - overwrite disarms the guard for its pair: after inject_one with
\* overwrite=True over an attribute the framework did not create, the pair is
\* in the history and every inject_one on it with overwrite=False (and a
\* definition that passes the as_property check) succeeds and replaces the
\* attribute; and whenever the pair of an attribute the type had at first is
\* recorded, a call with overwrite=False on it raises no
\* ExistingAttributeError.
C23_GuardDisarmed ==
    /\ C23_Overwrote =>
        /\ Key \in history
        /\ \A d2 \in Defs, ap \in BOOLEAN :
            PassesPropertyCheck(Obj(d2), ap) =>
                \A r \in {_inject_attr_and_cache(attrs, history, T, N, Obj(d2), FALSE, ap)} :
                    /\ r.outcome = "ok"
                    /\ r.attrs[T][N] = Bound(Obj(d2), ap)
    /\ (/\ IsOne /\ ~last.overwrite /\ InitAttrs[T][N] = Orig
        /\ Key \in pre.history /\ Mutable(T)
        /\ PassesPropertyCheck(D, last.as_property)) =>
            /\ last.outcome = "ok"
            /\ attrs[T][N] = Bound(D, last.as_property)

C23_Witness ==
    /\ C23_Overwrote
    /\ T = "Frame" /\ N = "shape"
    /\ attrs[T][N] = D
    /\ Key \in history
    /\ _inject_attr_and_cache(attrs, history, T, N, Obj("v"), FALSE, FALSE).outcome = "ok"
    /\ _inject_attr_and_cache(attrs, history, T, N, Obj("v"), FALSE, FALSE).attrs[T][N]
            = Obj("v")

\* an inject_one call passed overwrite=False on a name the target does not
\* define itself but inherits, the pair not being recorded
C24_Inherited ==
    /\ IsOne /\ ~last.overwrite
    /\ PassesPropertyCheck(D, last.as_property)
    /\ pre.attrs[T][N] = Absent /\ hasattr(pre.attrs, T, N)
    /\ Key \notin pre.history

\* a bundle call passed overwrite=False and the targets [B, D], D a subclass
\* of B, neither exposing the first name of the class body nor recorded for it
C24_BaseThenSubclass ==
    /\ IsBundle /\ ~last.overwrite
    /\ Len(last.to) = 2 /\ Len(last.body) >= 1
    /\ last.to[1] # last.to[2] /\ issubclass(last.to[2], last.to[1])
    /\ Mutable(last.to[1])
    /\ PassesPropertyCheck(last.body[1].obj, last.as_property)
    /\ \A j \in 1..2 :
        /\ ~hasattr(pre.attrs, last.to[j], last.body[1].name)
        /\ _make_history_key(last.to[j], last.body[1].name) \notin pre.history

\* C24 - inherited attributes count as existing: inject_one with
\* overwrite=False on a subtype that does not define the name itself but
\* inherits it, the pair of the subtype being unrecorded, raises
\* ExistingAttributeError and changes nothing; a first bundle with targets
\* [B, D] and overwrite=False attaches its first definition to B, then raises
\* ExistingAttributeError at D and stops.
C24_InheritedCountsAsExisting ==
    /\ C24_Inherited =>
        /\ last.outcome = "ExistingAttributeError"
        /\ Unchanged
    /\ C24_BaseThenSubclass =>
        /\ last.outcome = "ExistingAttributeError"
        /\ last.log = << <<last.to[1], last.body[1].name>>,
                         <<last.to[2], last.body[1].name>> >>
        /\ attrs[last.to[1]][last.body[1].name]
                = Bound(last.body[1].obj, last.as_property)
        /\ attrs[last.to[2]][last.body[1].name] = Absent
        /\ _make_history_key(last.to[1], last.body[1].name) \in history
        /\ _make_history_key(last.to[2], last.body[1].name) \notin history

C24_Witness ==
    /\ C24_Inherited
    /\ T = "SubFrame" /\ N = "nrows"
    /\ pre.attrs["Frame"]["nrows"] \notin {Absent, Orig}
    /\ _make_history_key("Frame", "nrows") \in pre.history
    /\ last.outcome = "ExistingAttributeError"
    /\ attrs["SubFrame"]["nrows"] = Absent

\* the column of a list at an index counted as Python does, from 0 and, when
\* negative, from the end
At(cols, i) == IF i >= 0 THEN cols[i + 1] ELSE cols[Len(cols) + i + 1]

\* a list without the column x
Without(cols, x) == SelectSeq(cols, LAMBDA c : c # x)

\* C21 - move_col: the columns of the frame returned are a permutation of the
\* columns of the original, whose order is not changed; with a column name as
\* target, name stands immediately before target and the other columns keep
\* their relative order (with name = target the order is the original one);
\* with an integer target that is an index of the frame, the column at that
\* index of the frame returned is name.
C21_MoveCol ==
    (df.op = "move_col" /\ df.outcome = "ok") =>
        /\ df.after = df.columns
        /\ Len(df.result) = Len(df.columns)
        /\ \A c \in Cols : contains(df.result, c) = contains(df.columns, c)
        /\ Without(df.result, df.name) = Without(df.columns, df.name)
        /\ (df.target.kind = "str" /\ df.target.val # df.name) =>
                index(df.result, df.name) + 1 = index(df.result, df.target.val)
        /\ (df.target.kind = "str" /\ df.target.val = df.name) =>
                df.result = df.columns
        /\ (/\ df.target.kind = "int"
            /\ df.target.val < Len(df.columns)
            /\ df.target.val >= 0 - Len(df.columns)) =>
                At(df.result, df.target.val) = df.name

\* what holds of C21: the same with integer targets from 0 on only
C21_MoveColFromZero ==
    (df.op = "move_col" /\ df.outcome = "ok") =>
        /\ df.after = df.columns
        /\ Len(df.result) = Len(df.columns)
        /\ \A c \in Cols : contains(df.result, c) = contains(df.columns, c)
        /\ Without(df.result, df.name) = Without(df.columns, df.name)
        /\ (df.target.kind = "str" /\ df.target.val # df.name) =>
                index(df.result, df.name) + 1 = index(df.result, df.target.val)
        /\ (df.target.kind = "str" /\ df.target.val = df.name) =>
                df.result = df.columns
        /\ (/\ df.target.kind = "int"
            /\ df.target.val < Len(df.columns)
            /\ df.target.val >= 0) =>
                At(df.result, df.target.val) = df.name

\* the cache entries that exist, as <<connection, query>>
CacheKeys == {k \in Connections \X Queries : sql[k[1]].cache[k[2]] # NoObject}

\* the entry k holds the same frame with the same contents after the step
EntryKept(k) ==
    /\ sql'[k[1]].cache[k[2]] = sql[k[1]].cache[k[2]]
    /\ heap'[sql[k[1]].cache[k[2]]] = heap[sql[k[1]].cache[k[2]]]

\* a read that finds its query in the cache returns the contents cached,
\* whatever the table holds by now
ReadsCached ==
    \A k \in CacheKeys :
        (out'.n = out.n + 1 /\ out'.op = "read_sql" /\ out'.con = k[1] /\ out'.arg = k[2])
            => /\ out'.outcome = "ok"
               /\ heap'[out'.ret] = heap[sql[k[1]].cache[k[2]]]

\* a call that names one connection leaves the cache of the other alone
OtherCacheAlone ==
    \A con \in Connections :
        (out'.op \in {"to_sql", "read_sql"} /\ out'.con # con)
            => sql'[con].cache = sql[con].cache

\* C25: an entry of the read cache, once stored, is never changed or removed
\* by any operation; so a read_sql of a query already cached returns the
\* contents cached, also after to_sql replaced the table; and the caches of
\* the connections raw and main are independent.
C25_CacheNeverInvalidated ==
    [][(\A k \in CacheKeys : EntryKept(k)) /\ ReadsCached /\ OtherCacheAlone]_vars

\* what holds of C25: to_sql and read_sql themselves never change or remove
\* an entry, a cached query is answered from the cache, and the two caches
\* are independent
C25_NotInvalidatedByWorkspace ==
    [][/\ out'.op \in {"to_sql", "read_sql"} => \A k \in CacheKeys : EntryKept(k)
       /\ ReadsCached
       /\ OtherCacheAlone]_vars

\* a read_sql has just returned contents that differ from the table's, which
\* to_sql replaced after the query was cached
C25_StaleRead ==
    /\ out.op = "read_sql"
    /\ out.outcome = "ok"
    /\ heap[out.ret] # sql[out.con].tables[table_of(out.arg)]
    /\ heap[out.ret].columns = "orig"

====
